---- MODULE Spec2Model ----
(***************************************************************************)
(* A model of csv-to-arff.py: the single routine csv_to_arff(fileToRead,   *)
(* fileToWrite, relation).  Text is a sequence of one-character strings;   *)
(* the source file is the grid csv.reader returns for it; the destination  *)
(* file is the sequence of the texts handed to writeFile.write.            *)
(***************************************************************************)
EXTENDS Integers, Sequences, FiniteSets, TLC

\* ---------------------------------------------------------------- bounds
MaxCols == 2
MaxRows == 2
MaxLen == 3

\* ------------------------------------------------------------ characters
LF == "\n"
CR == "\r"
SQ == "'"
DQ == "\""
BS == "\\"

\* The characters source fields are drawn from: an upper-case letter, a
\* digit, the two line-ending characters and the two quote characters.
Alphabet == {"E", "1", LF, CR, SQ, DQ}

\* The fields of the regular and ragged tables: an empty cell and a word.
ShapeCells == {<<>>, <<"E">>}

\* os.linesep: "\n" on POSIX, "\r\n" on Windows.
LineSeps == {<<LF>>, <<CR, LF>>}

\* The relation names csv_to_arff is called with.
Relations == {<<"G">>}

\* ------------------------------------------------------- text operations
Range(s) == {s[i] : i \in 1..Len(s)}

\* str.join
RECURSIVE Join(_, _)
Join(sep, ss) ==
  IF ss = <<>> THEN <<>>
  ELSE IF Len(ss) = 1 THEN ss[1]
  ELSE ss[1] \o sep \o Join(sep, Tail(ss))

\* str.lower, on the characters of the model
LowerChar(c) == IF c = "E" THEN "e" ELSE c
Lower(s) == [i \in 1..Len(s) |-> LowerChar(s[i])]

\* str.strip(chars): drops the leading and the trailing characters that are
\* in chars, and nothing in between.
Strip(s, chars) ==
  LET keep == {i \in 1..Len(s) : s[i] \notin chars}
  IN IF keep = {} THEN <<>>
     ELSE LET lo == CHOOSE i \in keep : \A k \in keep : i <= k
              hi == CHOOSE i \in keep : \A k \in keep : i >= k
          IN SubSeq(s, lo, hi)

\* str.replace(old, new) for a one-character old
RECURSIVE Replace(_, _, _)
Replace(s, old, new) ==
  IF s = <<>> THEN <<>>
  ELSE (IF Head(s) = old THEN new ELSE <<Head(s)>>) \o Replace(Tail(s), old, new)

\* str(n) for a natural number
DigitChars == <<"0", "1", "2", "3", "4", "5", "6", "7", "8", "9">>
RECURSIVE Str(_)
Str(n) == IF n < 10 THEN <<DigitChars[n + 1]>>
          ELSE Str(n \div 10) \o <<DigitChars[(n % 10) + 1]>>

\* float(s) succeeds: surrounding whitespace is ignored, then digits with an
\* optional exponent.  (Signs, the decimal point, underscores and the words
\* inf and nan need characters no text of the model contains.)
Whitespace == {LF, CR}
Digits == {"0", "1", "2", "3", "4", "5", "6", "7", "8", "9"}
IsDigits(s) == s # <<>> /\ Range(s) \subseteq Digits
IsFloat(s) ==
  LET t == Strip(s, Whitespace)
  IN \/ IsDigits(t)
     \/ \E k \in 1..Len(t) :
          /\ t[k] \in {"e", "E"}
          /\ IsDigits(SubSeq(t, 1, k - 1))
          /\ IsDigits(SubSeq(t, k + 1, Len(t)))

\* ------------------------------------------------------ the literal texts
Numeric == <<"n", "u", "m", "e", "r", "i", "c">>
Nominal == <<"n", "o", "m", "i", "n", "a", "l">>
CommentBanner ==
  <<"%", LF, "%", " ", "C", "o", "m", "m", "e", "n", "t", "s", " ", "g", "o", " ",
    "a", "f", "t", "e", "r", " ", "a", " ", SQ, "%", SQ, " ", "s", "i", "g", "n",
    ".", LF, "%", LF>>
RelationPre == <<"%", LF, "%", " ", "R", "e", "l", "a", "t", "i", "o", "n", ":", " ">>
RelationPost == <<LF, "%", LF, "%", LF>>
AttributesPre == <<"%", " ", "A", "t", "t", "r", "i", "b", "u", "t", "e", "s", ":", " ">>
FiveSpaces == <<" ", " ", " ", " ", " ">>
InstancesPre == <<"I", "n", "s", "t", "a", "n", "c", "e", "s", ":", " ">>
CountsPost == <<LF, "%", LF, "%", LF, LF>>
RelationDecl == <<"@", "r", "e", "l", "a", "t", "i", "o", "n", " ", DQ>>
RelationDeclPost == <<DQ, LF, LF>>
AttributeKw == <<"@", "a", "t", "t", "r", "i", "b", "u", "t", "e">>
DataMarker == <<LF, "@", "d", "a", "t", "a", LF>>

\* ------------------------------------------------- the passes of the code
\* The empty-cell pass of lines 72-75 visits the cells column by column and,
\* inside a column, row by row (the header row included).  Fails(grid, n) are
\* the visits that index past the end of a row; the first of them, in visiting
\* order, raises IndexError and ends the pass.
Fails(grid, n) == {v \in (1..n) \X (1..Len(grid)) : Len(grid[v[2]]) < v[1]}
Before(v, w) == v[1] < w[1] \/ (v[1] = w[1] /\ v[2] < w[2])
FirstFail(grid, n) ==
  CHOOSE v \in Fails(grid, n) : \A w \in Fails(grid, n) : v = w \/ Before(v, w)
\* Lines 74-75 without the substitution.
KeepEmptyCell(cell) == cell
\* Lines 74-75.
EmptyCell(cell) == IF cell = <<>> THEN <<"0">> ELSE cell
EmptyCellPass(grid, n) ==
  [i \in 1..Len(grid) |->
    [j \in 1..Len(grid[i]) |->
      IF /\ j <= n
         /\ Fails(grid, n) # {} => Before(<<j, i>>, FirstFail(grid, n))
      THEN EmptyCell(grid[i][j])
      ELSE grid[i][j]]]

\* Lines 80-86 on one cell.
Quote(s) == <<DQ>> \o s \o <<DQ>>
Escape(s) == Replace(Replace(s, SQ, <<BS, SQ>>), DQ, <<BS, DQ>>)
StripEnds(s, sep) == Strip(Strip(Strip(s, Range(sep)), {LF}), {CR})
NormalizeCell(cell, sep) ==
  LET t == Escape(StripEnds(Lower(cell), sep))
  IN IF IsFloat(t) THEN t ELSE Quote(t)

\* Lines 78-86: the data rows, the columns of the header.
NormalizePass(grid, n, sep) ==
  [i \in 1..Len(grid) |->
    [j \in 1..Len(grid[i]) |->
      IF i >= 2 /\ j <= n THEN NormalizeCell(grid[i][j], sep) ELSE grid[i][j]]]

\* list(dict.fromkeys(s)): the first occurrence of every value, in order
RECURSIVE FromKeys(_, _)
FromKeys(s, seen) ==
  IF s = <<>> THEN <<>>
  ELSE IF Head(s) \in seen THEN FromKeys(Tail(s), seen)
  ELSE <<Head(s)>> \o FromKeys(Tail(s), seen \cup {Head(s)})

\* Column j of the data rows (lines 90-91).
ColumnOf(grid, j) == [i \in 1..(Len(grid) - 1) |-> grid[i + 1][j]]
\* Line 94 left out: the accumulator carried into the next column.
KeepColumnsTemp(columnsTemp) == columnsTemp
\* Line 94.
ResetColumnsTemp(columnsTemp) == <<>>
Braces(values) == <<"{">> \o Join(<<",">>, values) \o <<"}">>

\* Lines 89-94, from column j on; st holds columnsTemp, uniqueTemp and
\* uniqueOfColumn.
RECURSIVE UniqueLoop(_, _, _, _)
UniqueLoop(j, grid, n, st) ==
  IF j > n THEN st
  ELSE LET filled == st.columnsTemp \o ColumnOf(grid, j)
           unique == FromKeys(filled, {})
       IN UniqueLoop(j + 1, grid, n,
            [columnsTemp |-> ResetColumnsTemp(filled),
             uniqueTemp |-> unique,
             uniqueOfColumn |-> Append(st.uniqueOfColumn, Braces(unique))])

\* Lines 99-103 on one cell.
CellType(cell) == IF IsFloat(cell) THEN Numeric ELSE Nominal

\* Lines 97-103: one entry per cell, row after row.
CellTypePass(grid, n) ==
  [k \in 1..((Len(grid) - 1) * n) |->
    CellType(grid[((k - 1) \div n) + 2][((k - 1) % n) + 1])]

\* Line 109 advancing by one entry instead of one row.
StrideOne(p, n) == p + 1
\* Line 109.
Stride(p, n) == p + n

\* Lines 107-109: count entries of dataType from (0-based) index p on.
RECURSIVE ReadColumn(_, _, _, _)
ReadColumn(dataType, p, n, count) ==
  IF count = 0 THEN <<>>
  ELSE <<dataType[p + 1]>> \o ReadColumn(dataType, Stride(p, n), n, count - 1)

\* Lines 110-113.
ColumnType(dataTypeTemp) ==
  IF Nominal \in Range(dataTypeTemp) THEN Nominal ELSE Numeric

\* Lines 105-114.
ColumnTypePass(dataType, n, rows) ==
  [j \in 1..n |-> ColumnType(ReadColumn(dataType, j - 1, n, rows - 1))]

\* The value of p after lines 105-114.
RECURSIVE StrideEnd(_, _, _)
StrideEnd(p, n, count) == IF count = 0 THEN p ELSE StrideEnd(Stride(p, n), n, count - 1)
FinalP(n, rows) == IF n = 0 THEN 0 ELSE StrideEnd(n - 1, n, rows - 1)

\* Lines 116-120.
AttTypesPass(finalDataType, uniqueOfColumn) ==
  [i \in 1..Len(finalDataType) |->
    IF finalDataType[i] = Nominal THEN uniqueOfColumn[i] ELSE finalDataType[i]]

\* Line 128 counting the header row among the instances.
InstancesWithHeader(rows) == rows
\* Line 128: the instance count written.
Instances(rows) == rows - 1

\* Line 128.
CountsLine(n, rows) ==
  AttributesPre \o Str(n) \o FiveSpaces \o InstancesPre \o Str(Instances(rows))
    \o CountsPost

\* Line 131.
AttributeLine(name, type) ==
  AttributeKw \o <<" ", SQ>> \o name \o <<SQ, " ">> \o type \o <<LF>>

\* Line 134.
DataLine(row) == Join(<<",">>, row) \o <<LF>>

\* Lines 125-134: the texts handed to writeFile.write, in order.
OutputChunks(rel, atts, types, n, rows, grid) ==
  << CommentBanner,
     RelationPre \o rel \o RelationPost,
     CountsLine(n, rows),
     RelationDecl \o rel \o RelationDeclPost >>
  \o [i \in 1..n |-> AttributeLine(atts[i], types[i])]
  \o <<DataMarker>>
  \o [i \in 1..(rows - 1) |-> DataLine(grid[i + 1])]

\* ----------------------------------------------------------- the inputs
\* The header row of a table of n columns: n distinct attribute names.
AttrName(k) == [i \in 1..k |-> "x"]
HeaderRow(n) == [k \in 1..n |-> AttrName(k)]

\* The data rows of a table of n columns have n fields each, but the last
\* row may be one field short (a blank line when n = 1) or one field long.
RowLens(n) == {l \in {n - 1, n, n + 1} : l >= 0}
RegularRows(n) == [1..n -> ShapeCells]
LastRows(n) == UNION {[1..l -> ShapeCells] : l \in RowLens(n)}
DataRows(n, r) ==
  IF r = 0 THEN {<<>>}
  ELSE {Append(rows, last) : rows \in [1..(r - 1) -> RegularRows(n)], last \in LastRows(n)}
ShapeTables ==
  UNION {{<<HeaderRow(n)>> \o rows : rows \in DataRows(n, r)} :
           <<n, r>> \in (0..MaxCols) \X (0..MaxRows)}

\* One attribute, one data row, the field any text of at most MaxLen characters.
Texts == UNION {[1..l -> Alphabet] : l \in 0..MaxLen}
CellTables == {<<HeaderRow(1), <<t>>>> : t \in Texts}

\* The grids csv.reader returns; <<>> is the empty file.
Tables == {<<>>} \cup ShapeTables \cup CellTables

\* ------------------------------------------------------------- the state
VARIABLES
  source,         \* the grid of the file fileToRead names
  linesep,        \* os.linesep
  relation,       \* the relation argument
  dest,           \* the file fileToWrite names: exists, chunks
  pc,             \* where the call stands
  messages,       \* what the call has printed
  raised,         \* the call ended with an exception it did not catch
  destBefore,     \* dest when the call began
  prevOk,         \* the call before this one printed the success message
  allData, attributes, totalCols, totalRows,
  columnsTemp, uniqueTemp, uniqueOfColumn,
  dataType, dataTypeTemp, finalDataType, attTypes, p

env == <<source, linesep, relation>>
locals == <<allData, attributes, totalCols, totalRows, columnsTemp, uniqueTemp,
            uniqueOfColumn, dataType, dataTypeTemp, finalDataType, attTypes, p>>
vars == <<env, dest, pc, messages, raised, destBefore, prevOk, locals>>

Absent == [exists |-> FALSE, chunks |-> <<>>]

Init ==
  /\ source \in Tables
  /\ linesep \in LineSeps
  /\ relation \in Relations
  /\ dest = Absent
  /\ pc = "idle"
  /\ messages = <<>>
  /\ raised = FALSE
  /\ destBefore = Absent
  /\ prevOk = FALSE
  /\ allData = <<>> /\ attributes = <<>> /\ totalCols = 0 /\ totalRows = 0
  /\ columnsTemp = <<>> /\ uniqueTemp = <<>> /\ uniqueOfColumn = <<>>
  /\ dataType = <<>> /\ dataTypeTemp = <<>> /\ finalDataType = <<>>
  /\ attTypes = <<>> /\ p = 0

\* ----------------------------------------------------------- the actions
\* csv_to_arff is called: lines 47-54.  The names bound later in the routine
\* (allData, attributes, totalCols, totalRows) keep the values of the call
\* before until lines 59 and 67-69 bind them; nothing reads them before that.
Call ==
  /\ pc \in {"idle", "returned"}
  /\ pc' = "read"
  /\ messages' = <<>>
  /\ raised' = FALSE
  /\ destBefore' = dest
  /\ prevOk' = (messages = <<"Converted">>)
  /\ dataType' = <<>> /\ columnsTemp' = <<>> /\ uniqueTemp' = <<>>
  /\ uniqueOfColumn' = <<>> /\ dataTypeTemp' = <<>> /\ finalDataType' = <<>>
  /\ attTypes' = <<>> /\ p' = 0
  /\ UNCHANGED <<env, dest, allData, attributes, totalCols, totalRows>>

\* Lines 57-59: the source is read whole.
ReadSource ==
  /\ pc = "read"
  /\ allData' = source
  /\ pc' = "header"
  /\ UNCHANGED <<env, dest, messages, raised, destBefore, prevOk, attributes,
                 totalCols, totalRows, columnsTemp, uniqueTemp, uniqueOfColumn,
                 dataType, dataTypeTemp, finalDataType, attTypes, p>>

\* Lines 60-62 in a routine that opened the destination before the source.
ReadNotFoundTruncating ==
  /\ pc = "read"
  /\ dest' = [exists |-> TRUE, chunks |-> <<>>]
  /\ messages' = Append(messages, "NotFound")
  /\ pc' = "returned"
  /\ UNCHANGED <<env, raised, destBefore, prevOk, locals>>

\* Lines 60-62: the source does not exist.
ReadNotFound ==
  /\ pc = "read"
  /\ messages' = Append(messages, "NotFound")
  /\ pc' = "returned"
  /\ UNCHANGED <<env, dest, raised, destBefore, prevOk, locals>>

\* Lines 63-65: the source cannot be read or decoded.
ReadError ==
  /\ pc = "read"
  /\ messages' = Append(messages, "ReadError")
  /\ pc' = "returned"
  /\ UNCHANGED <<env, dest, raised, destBefore, prevOk, locals>>

\* Lines 67-69.  attributes is the header row itself, not a copy of it.
Header ==
  /\ pc = "header"
  /\ allData # <<>>
  /\ attributes' = allData[1]
  /\ totalCols' = Len(allData[1])
  /\ totalRows' = Len(allData)
  /\ pc' = "empty"
  /\ UNCHANGED <<env, dest, messages, raised, destBefore, prevOk, allData,
                 columnsTemp, uniqueTemp, uniqueOfColumn, dataType, dataTypeTemp,
                 finalDataType, attTypes, p>>

\* Line 67 on an empty file: allData[0] raises IndexError, which nothing catches.
HeaderRaise ==
  /\ pc = "header"
  /\ allData = <<>>
  /\ raised' = TRUE
  /\ pc' = "returned"
  /\ UNCHANGED <<env, dest, messages, destBefore, prevOk, locals>>

\* Lines 72-75, every row as long as the header at least.
EmptyCells ==
  /\ pc = "empty"
  /\ Fails(allData, totalCols) = {}
  /\ allData' = EmptyCellPass(allData, totalCols)
  /\ attributes' = allData'[1]
  /\ pc' = "normalize"
  /\ UNCHANGED <<env, dest, messages, raised, destBefore, prevOk, totalCols,
                 totalRows, columnsTemp, uniqueTemp, uniqueOfColumn, dataType,
                 dataTypeTemp, finalDataType, attTypes, p>>

\* Lines 72-75, some row shorter than the header: allData[i][j] raises
\* IndexError, which nothing catches.
EmptyCellsRaise ==
  /\ pc = "empty"
  /\ Fails(allData, totalCols) # {}
  /\ allData' = EmptyCellPass(allData, totalCols)
  /\ attributes' = allData'[1]
  /\ raised' = TRUE
  /\ pc' = "returned"
  /\ UNCHANGED <<env, dest, messages, destBefore, prevOk, totalCols, totalRows,
                 columnsTemp, uniqueTemp, uniqueOfColumn, dataType, dataTypeTemp,
                 finalDataType, attTypes, p>>

\* Lines 78-86.
Normalize ==
  /\ pc = "normalize"
  /\ allData' = NormalizePass(allData, totalCols, linesep)
  /\ pc' = "unique"
  /\ UNCHANGED <<env, dest, messages, raised, destBefore, prevOk, attributes,
                 totalCols, totalRows, columnsTemp, uniqueTemp, uniqueOfColumn,
                 dataType, dataTypeTemp, finalDataType, attTypes, p>>

\* Lines 89-94.
Unique ==
  /\ pc = "unique"
  /\ LET st == UniqueLoop(1, allData, totalCols,
                 [columnsTemp |-> columnsTemp, uniqueTemp |-> uniqueTemp,
                  uniqueOfColumn |-> uniqueOfColumn])
     IN /\ columnsTemp' = st.columnsTemp
        /\ uniqueTemp' = st.uniqueTemp
        /\ uniqueOfColumn' = st.uniqueOfColumn
  /\ pc' = "celltype"
  /\ UNCHANGED <<env, dest, messages, raised, destBefore, prevOk, allData,
                 attributes, totalCols, totalRows, dataType, dataTypeTemp,
                 finalDataType, attTypes, p>>

\* Lines 97-103.
CellTypes ==
  /\ pc = "celltype"
  /\ dataType' = dataType \o CellTypePass(allData, totalCols)
  /\ pc' = "columntype"
  /\ UNCHANGED <<env, dest, messages, raised, destBefore, prevOk, allData,
                 attributes, totalCols, totalRows, columnsTemp, uniqueTemp,
                 uniqueOfColumn, dataTypeTemp, finalDataType, attTypes, p>>

\* Lines 105-114.
ColumnTypes ==
  /\ pc = "columntype"
  /\ finalDataType' = finalDataType \o ColumnTypePass(dataType, totalCols, totalRows)
  /\ p' = FinalP(totalCols, totalRows)
  /\ dataTypeTemp' = <<>>
  /\ pc' = "atttypes"
  /\ UNCHANGED <<env, dest, messages, raised, destBefore, prevOk, allData,
                 attributes, totalCols, totalRows, columnsTemp, uniqueTemp,
                 uniqueOfColumn, dataType, attTypes>>

\* Lines 116-120.
AttTypes ==
  /\ pc = "atttypes"
  /\ attTypes' = attTypes \o AttTypesPass(finalDataType, uniqueOfColumn)
  /\ pc' = "write"
  /\ UNCHANGED <<env, dest, messages, raised, destBefore, prevOk, allData,
                 attributes, totalCols, totalRows, columnsTemp, uniqueTemp,
                 uniqueOfColumn, dataType, dataTypeTemp, finalDataType, p>>

\* Line 124 with mode 'a': the old content kept, chunks added after it.
OpenForAppend(old, chunks) == [exists |-> TRUE, chunks |-> old.chunks \o chunks]
\* Line 124: mode 'w' creates the file or empties it; chunks are then added.
OpenForWrite(old, chunks) == [exists |-> TRUE, chunks |-> chunks]

\* Lines 124-134, every write and the close succeeding.
Write ==
  /\ pc = "write"
  /\ dest' = OpenForWrite(dest, OutputChunks(relation, attributes, attTypes,
                                             totalCols, totalRows, allData))
  /\ pc' = "written"
  /\ UNCHANGED <<env, messages, raised, destBefore, prevOk, locals>>

\* Line 124 raising (no permission, no such directory), then lines 138-139.
WriteOpenFails ==
  /\ pc = "write"
  /\ messages' = Append(messages, "WriteError")
  /\ pc' = "returned"
  /\ UNCHANGED <<env, dest, raised, destBefore, prevOk, locals>>

\* A write of lines 125-134, or the close, raising (disk full) after the file
\* was emptied and the first k texts reached it, then lines 138-139.
WriteFails ==
  /\ pc = "write"
  /\ LET chunks == OutputChunks(relation, attributes, attTypes, totalCols,
                                totalRows, allData)
     IN \E k \in 0..(Len(chunks) - 1) :
          dest' = OpenForWrite(dest, SubSeq(chunks, 1, k))
  /\ messages' = Append(messages, "WriteError")
  /\ pc' = "returned"
  /\ UNCHANGED <<env, raised, destBefore, prevOk, locals>>

\* Line 136.
PrintConverted ==
  /\ pc = "written"
  /\ messages' = Append(messages, "Converted")
  /\ pc' = "returned"
  /\ UNCHANGED <<env, dest, raised, destBefore, prevOk, locals>>

Next ==
  \/ Call
  \/ ReadSource
  \/ ReadNotFound
  \/ ReadError
  \/ Header
  \/ HeaderRaise
  \/ EmptyCells
  \/ EmptyCellsRaise
  \/ Normalize
  \/ Unique
  \/ CellTypes
  \/ ColumnTypes
  \/ AttTypes
  \/ Write
  \/ WriteOpenFails
  \/ WriteFails
  \/ PrintConverted

Spec == Init /\ [][Next]_vars

\* ------------------------------------------------------- the properties
\* The call has written the whole destination (before and after line 136).
Converted == pc = "returned" /\ messages = <<"Converted">>
Written == pc = "written" \/ Converted

\* The passes of the call that have run once pc is past them.
AfterEmpty == {"normalize", "unique", "celltype", "columntype", "atttypes", "write", "written"}
AfterNormalize == AfterEmpty \ {"normalize"}
AfterCellTypes == {"columntype", "atttypes", "write", "written"}

NCols == Len(source[1])
DataRowIndexes == 2..Len(source)
AttributeChunk(j) == dest.chunks[4 + j]
DataChunk(i) == dest.chunks[4 + NCols + i]

\* The chunks written by line 131 and by line 134.
IsPrefix(s, t) == Len(s) <= Len(t) /\ SubSeq(t, 1, Len(s)) = s
AttributeChunks == {k \in 1..Len(dest.chunks) : IsPrefix(AttributeKw, dest.chunks[k])}
MarkerIndex == CHOOSE k \in 1..Len(dest.chunks) : dest.chunks[k] = DataMarker
DataChunks == (MarkerIndex + 1)..Len(dest.chunks)

\* The fields of a line of the @data section.
RECURSIVE SplitCommas(_)
SplitCommas(s) ==
  IF "," \notin Range(s) THEN <<s>>
  ELSE LET k == CHOOSE i \in 1..Len(s) : s[i] = "," /\ \A m \in 1..(i - 1) : s[m] # ","
       IN <<SubSeq(s, 1, k - 1)>> \o SplitCommas(SubSeq(s, k + 1, Len(s)))
Fields(line) == SplitCommas(SubSeq(line, 1, Len(line) - 1))

\* The distinct values of a column, each once, by the row of its first occurrence.
FirstRows(col) == {i \in 1..Len(col) : \A k \in 1..(i - 1) : col[k] # col[i]}
FirstOccurrences(col) ==
  [m \in 1..Cardinality(FirstRows(col)) |->
    col[CHOOSE i \in FirstRows(col) : Cardinality({k \in FirstRows(col) : k <= i}) = m]]

ColumnParses(j) == \A i \in DataRowIndexes : IsFloat(allData[i][j])

\* C1: column j is declared numeric if and only if every data-row cell of
\* column j, after the empty-cell and normalization passes, parses as a
\* floating-point number, and is declared with a brace list otherwise; entry
\* (i-1)*totalCols + j of the row-major dataType list is the type of the cell
\* of data row i in column j.
C1_NumericIffAllParse ==
  /\ pc \in AfterCellTypes =>
       \A i \in 1..(totalRows - 1), j \in 1..totalCols :
         dataType[(i - 1) * totalCols + j] = CellType(allData[i + 1][j])
  /\ Written =>
       \A j \in 1..NCols :
         /\ ColumnParses(j) <=> AttributeChunk(j) = AttributeLine(attributes[j], Numeric)
         /\ ~ColumnParses(j) =>
              \E d \in Range(uniqueOfColumn) :
                /\ Head(d) = "{" /\ d[Len(d)] = "}"
                /\ AttributeChunk(j) = AttributeLine(attributes[j], d)

\* A table of two columns and two data rows was converted: one column parses
\* throughout, the other holds a cell that parses and one that does not.
C1_Witness ==
  /\ Converted
  /\ NCols = 2 /\ Len(source) = 3
  /\ \E j, k \in 1..NCols :
       /\ ColumnParses(j)
       /\ IsFloat(allData[2][k]) /\ ~IsFloat(allData[3][k])

\* C2: for every column with a data-row value that does not parse, the domain
\* written in its @attribute line is the brace list of the distinct normalized
\* values of that column's data rows, each once, in the order of the rows of
\* their first occurrence, and of nothing else.
C2_DomainIsFirstOccurrences ==
  Written =>
    \A j \in 1..NCols :
      ~ColumnParses(j) =>
        AttributeChunk(j) =
          AttributeLine(attributes[j], Braces(FirstOccurrences(ColumnOf(allData, j))))

\* A second column was declared nominal whose values repeat, and the first
\* column holds a value the second does not.
C2_Witness ==
  /\ Converted
  /\ NCols = 2 /\ Len(source) = 3
  /\ ~ColumnParses(2)
  /\ allData[2][2] = allData[3][2]
  /\ allData[2][1] # allData[2][2]

C4_CountsMatchTable ==
  (Written /\ Len(source) >= 2) =>
    /\ dest.chunks[3] =
         AttributesPre \o Str(Len(source[1])) \o FiveSpaces \o InstancesPre
           \o Str(Len(source) - 1) \o CountsPost
    /\ Cardinality(AttributeChunks) = Len(source[1])
    /\ Cardinality(DataChunks) = Len(source) - 1
    /\ totalRows - 1 = Len(source) - 1

\* A table of two columns and two data rows was converted.
C4_Witness == Converted /\ NCols = 2 /\ Len(source) = 3

\* The source was read in this call: neither read failure was reported.
SourceRead == Range(messages) \cap {"NotFound", "ReadError"} = {}
ShortRow == \E i \in 1..Len(source) : Len(source[i]) < Len(source[1])
FailureMessages == {"NotFound", "ReadError", "WriteError"}

\* C5: when some row has fewer fields than the header row, the call ends with
\* the error caught, a failure message reported, nothing raised and the
\* destination as it was.
C5_ShortRowAbortsCleanly ==
  (pc = "returned" /\ SourceRead /\ ShortRow) =>
    /\ ~raised
    /\ \E m \in Range(messages) : m \in FailureMessages
    /\ dest = destBefore

\* C6: when the source does not exist or cannot be read, the call reports the
\* failure and returns with the destination as it was when the call began:
\* absent if it was absent, its content unchanged if it existed.
C6_ReadFailureLeavesDestination ==
  (messages # <<>> /\ messages[1] \in {"NotFound", "ReadError"}) =>
    /\ pc = "returned"
    /\ Len(messages) = 1
    /\ ~raised
    /\ dest = destBefore

\* A call found the source missing while a destination written by an earlier
\* call existed.
C6_Witness ==
  /\ pc = "returned"
  /\ messages = <<"NotFound">>
  /\ dest.exists /\ dest.chunks # <<>>

\* The destination holds what lines 125-134 write for this call's table.
Complete ==
  /\ dest.exists
  /\ dest.chunks = OutputChunks(relation, attributes, attTypes, totalCols, totalRows, allData)

\* C7: every call ends either with the success message shown and the complete
\* output in the destination, or with one failure message shown; never with
\* the success message after a failed write, never with no message.  (What the
\* destination holds beside a failure message is left open here: the claim
\* fails already on the messages.)
C7_OneOutcomePerCall ==
  pc = "returned" =>
    \/ messages = <<"Converted">> /\ Complete
    \/ Len(messages) = 1 /\ messages[1] \in FailureMessages

\* C8: a call that succeeds right after a call that succeeded on the same
\* source and relation name leaves the destination as that earlier call left it.
C8_SecondRunIdentical ==
  (Converted /\ prevOk) => dest = destBefore

\* A table with data rows was converted twice in a row.
C8_Witness == Converted /\ prevOk /\ Len(source) >= 2 /\ NCols >= 1

LineEndings == {LF, CR}
LineCount(text) == Cardinality({k \in 1..Len(text) : text[k] = LF})

\* C9: after the normalization pass no data-row cell contains a line feed or
\* a carriage return, and every data row written is exactly one line.
C9_NoLineEndingsInCells ==
  /\ pc \in AfterNormalize =>
       \A i \in DataRowIndexes, j \in 1..NCols :
         Range(allData[i][j]) \cap LineEndings = {}
  /\ Written => \A i \in DataRowIndexes : LineCount(DataChunk(i)) = 1

Upper == {"E"}
QuotesEscaped(w) ==
  \A k \in 1..Len(w) : w[k] \in {SQ, DQ} => (k > 1 /\ w[k - 1] = BS)
IsNormalized(raw, w) ==
  /\ raw = <<>> => w = <<"0">>
  /\ Range(w) \cap Upper = {}
  /\ \/ IsFloat(w) /\ QuotesEscaped(w)
     \/ /\ Len(w) >= 2 /\ Head(w) = DQ /\ w[Len(w)] = DQ
        /\ ~IsFloat(SubSeq(w, 2, Len(w) - 1))
        /\ QuotesEscaped(SubSeq(w, 2, Len(w) - 1))

\* C10: the text written for the k-th data row is the comma-join, in order, of
\* the normalized forms of all the fields of the k-th source data row: empty
\* replaced by 0, lower-cased, quotes escaped, in double quotes if and only if
\* it does not parse; no field is written raw, those of a row longer than the
\* header included.
C10_EveryFieldNormalized ==
  Written =>
    \A i \in DataRowIndexes :
      \E row \in [1..Len(source[i]) -> Range(allData[i]) \cup {<<"0">>}] :
        /\ DataChunk(i) = DataLine(row)
        /\ \A j \in 1..Len(source[i]) : IsNormalized(source[i][j], row[j])

====
